---------------------------- MODULE Spec2Model ----------------------------
(***************************************************************************)
(* Streaming AES-CTR transforms of openssl-aes-ctr-stream (src/index.ts).  *)
(*                                                                         *)
(* A plaintext source is encrypted by aesCtrEncrypt (explicit key) or      *)
(* aesCtrEncryptWithPbkdf2 (password), its output bytes are re-chunked     *)
(* arbitrarily and decrypted by aesCtrDecrypt / aesCtrDecryptWithPbkdf2.   *)
(* The decrypt side can also be fed a hand-made byte stream.               *)
(*                                                                         *)
(* Bytes are integers 0..255, byte arrays are sequences.  The AES block    *)
(* primitive and PBKDF2 are external: they are modelled as deterministic   *)
(* functions of their arguments (CTR = data XOR keystream(key, counter)).  *)
(***************************************************************************)
EXTENDS Integers, Sequences, FiniteSets, TLC

----------------------------------------------------------------------------
(* Bounds of the exploration *)

\* longest plaintext fed to the encrypt side
MaxPlainLen == 35

\* longest plaintext fed to the password-based encrypt side
MaxPwPlainLen == 19

\* number of payload bytes that follow the 16 header bytes of a hand-made
\* password-path stream
CraftedPayloadLen == 5

----------------------------------------------------------------------------
(* Program constants *)

ivBitSize == 128

blockByteSize == 16

\* variant in which the header reads ask for 4 bytes
expectedByteLength_four == blockByteSize \div 4

\* length asked of each of the two header reads: read(8), checked by
\* throwIfUnexpectedLength(.., 8)
expectedByteLength == 8

\* new TextEncoder().encode('Salted__')
Salted__ == <<83, 97, 108, 116, 101, 100, 95, 95>>

\* queue high-water mark of a ReadableStream built without a strategy
highWaterMark == 1

----------------------------------------------------------------------------
(* Byte-array helpers *)

Min(a, b) == IF a < b THEN a ELSE b

Take(s, n) == SubSeq(s, 1, Min(n, Len(s)))

Drop(s, n) == SubSeq(s, Min(n, Len(s)) + 1, Len(s))

\* ArrayBuffer.slice(begin, end), 0-based, end exclusive
Slice(s, begin, end) == SubSeq(s, begin + 1, Min(end, Len(s)))

RECURSIVE XorBits(_, _, _)
XorBits(a, b, n) ==
  IF n = 0 THEN 0
  ELSE (((a % 2) + (b % 2)) % 2) + 2 * XorBits(a \div 2, b \div 2, n - 1)

Xor(a, b) == XorBits(a, b, 8)

\* Uint8Array.prototype.set(value, offset) on the 16-byte block
TypedArraySet(blk, value, offset) ==
  [j \in 1..Len(blk) |->
     IF j > offset /\ j <= offset + Len(value) THEN value[j - offset] ELSE blk[j]]

----------------------------------------------------------------------------
(* External cryptographic provider *)

RECURSIVE BytesHash(_, _)
BytesHash(s, acc) ==
  IF s = <<>> THEN acc ELSE BytesHash(Tail(s), (acc * 31 + Head(s) + 1) % 65521)

\* keystream block AES_key(counter): a fixed function of key and counter
Keystream(key, counter) ==
  LET kh == BytesHash(key, 7)
      ch == BytesHash(counter, 3)
      base == (kh * 5 + ch) % 256
      step == (2 * ch + 29) % 256
  IN [j \in 1..blockByteSize |-> (base + step * j) % 256]

\* crypto.subtle.encrypt({name: "AES-CTR", counter, length: 128}, key, block)
\* on one 16-byte block
SubtleEncrypt(key, counter, data) ==
  LET ks == Keystream(key, counter)
  IN [j \in 1..Len(data) |-> Xor(data[j], ks[j])]

\* crypto.subtle.decrypt with the same algorithm parameters
SubtleDecrypt(key, counter, data) ==
  LET ks == Keystream(key, counter)
  IN [j \in 1..Len(data) |-> Xor(data[j], ks[j])]

\* crypto.subtle.importKey("raw", key, {name: "AES-CTR"}, ...) resolves only
\* for AES key sizes
ImportKeyOk(key) == Len(key) \in {16, 24, 32}

\* crypto.subtle.encrypt / decrypt with name "AES-CTR" reject a counter that
\* is not one block long
CounterOk(counter) == Len(counter) = blockByteSize

\* crypto.subtle.deriveBits rejects a length that is not a multiple of 8
DeriveBitsOk(bits) == bits > 0 /\ bits % 8 = 0

\* PBKDF2 output of the requested bit length; a longer output extends a
\* shorter one
DeriveBits(password, salt, iterations, hash, bits) ==
  LET ph == BytesHash(password, 11)
      sh == BytesHash(salt, 13)
      hh == BytesHash(hash, 17)
  IN [i \in 1..(bits \div 8) |->
        (ph * 3 + sh * 7 + iterations + hh + i * 41 + (sh % 5) * i) % 256]

----------------------------------------------------------------------------
(* Pure functions of index.ts *)

\* deriveKeyAndIvByPbkdf2: one deriveBits call for keyBits + ivBitSize bits,
\* split into key and iv; ok = FALSE when the provider rejects
deriveKeyAndIvByPbkdf2(salt, password, keyBits, iterations, hash) ==
  IF ~DeriveBitsOk(keyBits + ivBitSize)
  THEN [ok |-> FALSE, key |-> <<>>, iv |-> <<>>]
  ELSE LET keyIvBits == DeriveBits(password, salt, iterations, hash,
                                   keyBits + ivBitSize)
       IN [ok  |-> TRUE,
           key |-> Slice(keyIvBits, 0, keyBits \div 8),
           iv  |-> Slice(keyIvBits, keyBits \div 8, Len(keyIvBits))]

\* variant of incrementCounter whose loop starts past the last byte and
\* stops at once
incrementCounter_pastEnd(counter) == counter

\* variant of incrementCounter that bumps the last byte and never carries
incrementCounter_noCarry(counter) ==
  [counter EXCEPT ![Len(counter)] = (@ + 1) % 256]

RECURSIVE incrementFrom(_, _)
incrementFrom(counter, i) ==
  IF i = 0 THEN counter
  ELSE LET v == (counter[i] + 1) % 256
           c == [counter EXCEPT ![i] = v]
       IN IF v # 0 THEN c ELSE incrementFrom(c, i - 1)

\* variant of incrementCounter that runs the loop twice
incrementCounter_twice(counter) ==
  incrementFrom(incrementFrom(counter, Len(counter)), Len(counter))

\* the loop of incrementCounter, from the last byte backward
incrementCounter(counter) == incrementFrom(counter, Len(counter))

\* variant of throwIfUnexpectedLength that checks done only
throwIfUnexpectedLength_doneOnly(result, expected) == result.done

\* variant of throwIfUnexpectedLength with the test inverted
throwIfUnexpectedLength_inverted(result, expected) ==
  ~result.done /\ Len(result.value) = expected

\* throwIfUnexpectedLength: TRUE when it throws
throwIfUnexpectedLength(result, expected) ==
  \/ result.done
  \/ Len(result.value) # expected

\* variants of the header: salt bytes left zero, salt before the magic
HeaderOf_zeroSalt(salt) == Salted__ \o [i \in 1..Len(salt) |-> 0]

HeaderOf_saltFirst(salt) == salt \o Salted__

\* mergeUint8Arrays([encode('Salted__'), salt])
HeaderOf(salt) == Salted__ \o salt

\* variants of the slice: taken from the start of the block, one byte short
EncryptedSlice_fromStart(blockEncrypted, blockOffset, byteLength) ==
  Slice(blockEncrypted, 0, byteLength)

EncryptedSlice_short(blockEncrypted, blockOffset, byteLength) ==
  Slice(blockEncrypted, blockOffset, blockOffset + byteLength - 1)

\* blockEncrypted.slice(blockOffset, blockOffset + result.value.byteLength)
EncryptedSlice(blockEncrypted, blockOffset, byteLength) ==
  Slice(blockEncrypted, blockOffset, blockOffset + byteLength)

\* variant of the slice taken from the start of the block
DecryptedSlice_fromStart(blockDecrypted, blockOffset, byteLength) ==
  Slice(blockDecrypted, 0, byteLength)

\* blockDecrypted.slice(blockOffset, blockOffset + result.value.byteLength)
DecryptedSlice(blockDecrypted, blockOffset, byteLength) ==
  Slice(blockDecrypted, blockOffset, blockOffset + byteLength)

----------------------------------------------------------------------------
(* Chunked sources and the sized reader (ChunkReassembler) *)

\* sizes of the chunks an upstream source may present
ChunkSizes == {3, 8, 16, 21}

\* outcomes of one read() of a source that has delivered pos bytes of data:
\* a chunk of one of the sizes (the rest of the data when less is left), the
\* end-of-data signal, or nothing yet (empty set) when more data may come
SourceReads(data, pos, ended) ==
  LET avail == Len(data) - pos
  IN IF avail > 0
     THEN {[done |-> FALSE, value |-> SubSeq(data, pos + 1, pos + Min(c, avail))]
             : c \in ChunkSizes}
     ELSE IF ended THEN {[done |-> TRUE, value |-> <<>>]} ELSE {}

\* reader.read(size, false): between 1 and size bytes from the backlog and at
\* most one newly pulled chunk, the rest kept as backlog; done when the source
\* is exhausted and nothing is buffered.  upstream is the set of outcomes of
\* the underlying read; each outcome says what was returned, the new backlog
\* and how many bytes were pulled from upstream.
ReadUpTo(buff, size, upstream) ==
  LET fromBacklog ==
        IF buff # <<>>
        THEN {[done |-> FALSE, value |-> Take(buff, size),
               buff |-> Drop(buff, size), pulled |-> 0, eof |-> FALSE]}
        ELSE {}
      fromUpstream ==
        IF Len(buff) < size
        THEN {IF r.done
              THEN IF buff = <<>>
                   THEN [done |-> TRUE, value |-> <<>>, buff |-> <<>>,
                         pulled |-> 0, eof |-> TRUE]
                   ELSE [done |-> FALSE, value |-> buff, buff |-> <<>>,
                         pulled |-> 0, eof |-> TRUE]
              ELSE [done |-> FALSE, value |-> Take(buff \o r.value, size),
                    buff |-> Drop(buff \o r.value, size),
                    pulled |-> Len(r.value), eof |-> FALSE]
              : r \in upstream}
        ELSE {}
  IN fromBacklog \cup fromUpstream

\* result of reader.read(size) once the backlog holds size bytes or the
\* source is exhausted: exactly size bytes, or what is left, or done
ReadExact(buff, size) ==
  IF buff = <<>> /\ size > 0
  THEN [done |-> TRUE, value |-> <<>>, buff |-> <<>>]
  ELSE [done |-> FALSE, value |-> Take(buff, size), buff |-> Drop(buff, size)]

\* reader.read() without a size: the whole backlog if there is one, else the
\* next chunk of the underlying source
ReadAny(buff, upstream) ==
  IF buff # <<>>
  THEN {[done |-> FALSE, value |-> buff, buff |-> <<>>, pulled |-> 0]}
  ELSE {[done |-> r.done, value |-> r.value, buff |-> <<>>,
         pulled |-> Len(r.value)] : r \in upstream}

----------------------------------------------------------------------------
(* Inputs *)

PlainLens == {0, 5, blockByteSize, MaxPlainLen}

PwPlainLens == {0, 5, MaxPwPlainLen}

\* source lengths of the runs with an unaccepted parameter length
ParamPlainLens == {0, 5}

Plaintext(n) == [i \in 1..n |-> (i * 37 + 11) % 256]

\* explicit keys: one of 32 and one of 16 bytes
Keys == {[i \in 1..32 |-> (i * 11 + 5) % 256], [i \in 1..16 |-> (i * 7 + 1) % 256]}

\* initial counters: the IV of the test vector, one whose last byte carries
\* into the next, and the all-ones value that wraps around
IvTest == <<199, 33, 89, 86, 208, 122, 227, 216, 128, 161, 139, 170, 4, 110, 229, 152>>

IvCarry == [i \in 1..blockByteSize |-> IF i = blockByteSize THEN 255 ELSE IF i = 15 THEN 254 ELSE 0]

IvAllOnes == [i \in 1..blockByteSize |-> 255]

\* a carry that runs through fifteen bytes
IvLongCarry == [i \in 1..blockByteSize |-> IF i = 1 THEN 0 ELSE 255]

Ivs == {IvTest, IvCarry, IvAllOnes, IvLongCarry}

\* parameters of the explicit-key entry points with a length the cipher does
\* not accept: a key of 8 bytes, an iv of 8 bytes, a salt of 4 bytes
ShortKey == [i \in 1..expectedByteLength |-> (i * 13 + 3) % 256]

ShortIv == [i \in 1..expectedByteLength |-> (i * 17 + 9) % 256]

ShortSalt == <<9, 8, 7, 6>>

\* "1234"
Passwords == {<<49, 50, 51, 52>>}

\* values crypto.getRandomValues may put in the salt
Salts == {<<172, 47, 218, 31, 167, 22, 228, 179>>, <<1, 2, 3, 4, 5, 6, 7, 8>>}

\* keyBits as passed at run time: the two documented values and two others
\* salts passed to the explicit-key entry points
KeySalts == Salts \cup {ShortSalt}

KeyBitsValues == {128, 256, 64, 100}

\* "SHA-256"
Hashes == {<<83, 72, 65, 45, 50, 53, 54>>}

Iterations == {100000}

\* hand-made inputs of the password decrypt path: truncated headers, a whole
\* header with or without payload, and a stream whose first 8 bytes are not
\* the magic
CraftedPayload == [i \in 1..CraftedPayloadLen |-> (i * 53 + 7) % 256]

BadMagic == <<88, 97, 108, 116, 101, 100, 95, 95>>

CraftedStreams ==
  LET salt == <<172, 47, 218, 31, 167, 22, 228, 179>>
      good == HeaderOf(salt) \o CraftedPayload
  IN {Take(good, n) : n \in {0, 5, 8, 12, 15, 16}}
       \cup {good, BadMagic \o salt \o CraftedPayload}

NoBytes == <<>>

\* one run of an explicit-key entry point pair
KeyConfig(feed, n, k, iv, s, consumer) ==
  [path |-> "key", feed |-> feed, plain |-> Plaintext(n), key |-> k, iv |-> iv,
   password |-> NoBytes, salt |-> s, keyBits |-> 8 * Len(k),
   iterations |-> 0, hash |-> NoBytes, crafted |-> NoBytes, consumer |-> consumer]

Key32 == [i \in 1..32 |-> (i * 11 + 5) % 256]

SaltTest == <<172, 47, 218, 31, 167, 22, 228, 179>>

Configs ==
  {KeyConfig("pipe", n, k, iv, SaltTest, "eager") : n \in PlainLens, k \in Keys, iv \in Ivs}
  \cup
  {KeyConfig("pipe", n, Key32, IvTest, s, "eager") : n \in PlainLens, s \in KeySalts}
  \cup
  {KeyConfig("pipe", n, k, iv, s, "eager")
     : n \in ParamPlainLens, k \in {Key32, ShortKey}, iv \in {IvTest, ShortIv}, s \in KeySalts}
  \cup
  {[path |-> "password", feed |-> "pipe", plain |-> Plaintext(n), key |-> NoBytes,
    iv |-> NoBytes, password |-> pw, salt |-> s, keyBits |-> kb,
    iterations |-> it, hash |-> h, crafted |-> NoBytes, consumer |-> "eager"]
     : n \in PwPlainLens, pw \in Passwords, s \in Salts, kb \in KeyBitsValues,
       it \in Iterations, h \in Hashes}
  \cup
  {[path |-> "password", feed |-> "crafted", plain |-> NoBytes, key |-> NoBytes,
    iv |-> NoBytes, password |-> pw, salt |-> NoBytes, keyBits |-> kb,
    iterations |-> it, hash |-> h, crafted |-> c, consumer |-> "eager"]
     : pw \in Passwords, kb \in {128, 256}, it \in Iterations, h \in Hashes,
       c \in CraftedStreams}

----------------------------------------------------------------------------
(* State *)

VARIABLES
  params,         \* arguments of the entry points and the source contents
  srcPos,         \* plaintext bytes the encrypt side has pulled from its source
  eOuter,         \* aesCtrEncryptWithPbkdf2 stream: start, derive, readable, closed, errored
  eInner,         \* aesCtrEncrypt stream: none, readable, closed, errored
  eKey,           \* params.key of aesCtrEncrypt
  eKeyOk,         \* cryptoKeyPromise resolves
  eBuff,          \* backlog of aesCtrEncrypt's sized reader
  eRestByteSize,  \* restByteSize of aesCtrEncrypt
  eBlock,         \* block of aesCtrEncrypt
  eBlockOffset,   \* blockOffset of aesCtrEncrypt
  eCounter,       \* counter of aesCtrEncrypt
  eIv,            \* params.iv of aesCtrEncrypt (the caller's buffer)
  eQueue,         \* chunks queued in the aesCtrEncrypt stream (password path)
  eFed,           \* all bytes aesCtrEncrypt's pull received from its reader
  eOut,           \* all bytes enqueued on the encrypt entry point's stream, in order
  eConsumer,      \* the consumer of the encrypt entry point's stream
  wirePos,        \* bytes the decrypt side has pulled from its source
  dOuter,         \* aesCtrDecryptWithPbkdf2 stream: magic, salt, derive, readable, closed, errored
  dInner,         \* aesCtrDecrypt stream: none, readable, closed, errored
  r1Buff,         \* backlog of encryptedReaderWithSalt
  r1Done,         \* encryptedReaderWithSalt has seen the end of its source
  dSalt,          \* salt of aesCtrDecryptWithPbkdf2
  iState,         \* stream of header-stripped bytes: none, readable, closed, errored
  iQueue,         \* chunks queued in it
  dKey,           \* params.key of aesCtrDecrypt
  dKeyOk,         \* cryptoKeyPromise resolves
  dBuff,          \* backlog of aesCtrDecrypt's sized reader
  dRestByteSize,  \* restByteSize of aesCtrDecrypt
  dBlock,         \* block of aesCtrDecrypt
  dBlockOffset,   \* blockOffset of aesCtrDecrypt
  dCounter,       \* counter of aesCtrDecrypt
  dIv,            \* params.iv of aesCtrDecrypt
  dQueue,         \* chunks queued in the aesCtrDecrypt stream (password path)
  dFed,           \* all bytes aesCtrDecrypt's pull received from its reader
  dOut,           \* all bytes enqueued on the decrypt entry point's stream, in order
  dConsumer       \* the consumer of the decrypt entry point's stream

encVars == <<srcPos, eOuter, eInner, eKey, eKeyOk, eBuff, eRestByteSize, eBlock,
             eBlockOffset, eCounter, eIv, eQueue, eFed, eOut, eConsumer>>

decVars == <<wirePos, dOuter, dInner, r1Buff, r1Done, dSalt, iState, iQueue, dKey,
             dKeyOk, dBuff, dRestByteSize, dBlock, dBlockOffset, dCounter, dIv,
             dQueue, dFed, dOut, dConsumer>>

vars == <<params, encVars, decVars>>

\* new Uint8Array(blockByteSize)
ZeroBlock == [i \in 1..blockByteSize |-> 0]

\* the closure variables of an entry point whose body has not run yet
NotConstructed ==
  [key |-> NoBytes, keyOk |-> FALSE, restByteSize |-> blockByteSize,
   block |-> ZeroBlock, blockOffset |-> 0, counter |-> NoBytes]

\* variant of aesCtrEncrypt whose counter block starts with the salt
aesCtrEncrypt_saltedCounter(p) ==
  [key |-> p.key, keyOk |-> ImportKeyOk(p.key), restByteSize |-> blockByteSize,
   block |-> ZeroBlock, blockOffset |-> 0,
   counter |-> [i \in 1..Len(p.iv) |-> IF i <= Len(p.salt) THEN p.salt[i] ELSE p.iv[i]]]

\* aesCtrEncrypt(readableStream, params), the body before `new ReadableStream`:
\* the closure variables of the pull handler.  params.salt is not read.
aesCtrEncrypt(p) ==
  [key |-> p.key, keyOk |-> ImportKeyOk(p.key), restByteSize |-> blockByteSize,
   block |-> ZeroBlock, blockOffset |-> 0, counter |-> p.iv]

\* aesCtrDecrypt(encryptedReadableStream, params), likewise
aesCtrDecrypt(p) ==
  [key |-> p.key, keyOk |-> ImportKeyOk(p.key), restByteSize |-> blockByteSize,
   block |-> ZeroBlock, blockOffset |-> 0, counter |-> p.iv]

\* without the slice() the counter is the caller's buffer itself
ivAfterCounterWrite_aliased(iv, newCounter) == newCounter

\* counter = params.iv.slice(): the counter is a buffer of its own, so a
\* write of newCounter into it leaves the caller's iv as it was
ivAfterCounterWrite(iv, newCounter) == iv

\* the consumer of an entry point's stream: held is the length of the chunk
\* queued on the stream and not yet taken, pending says that a read request
\* waits for the next chunk, asked that read() was ever called.  An eager
\* consumer calls read() again as soon as a chunk is handed to it.
NewConsumer(kind) == [held |-> 0, pending |-> kind = "eager", asked |-> kind = "eager"]

\* ctrl.enqueue(chunk) on an entry point's stream: the chunk fulfils the
\* pending read request, or waits in the queue
Enqueued(c, chunk) ==
  IF c.pending
  THEN [c EXCEPT !.pending = (params.consumer = "eager")]
  ELSE [c EXCEPT !.held = Len(chunk)]

\* a loop that calls pull whatever the queue holds
WantsPull_always(c) == TRUE

\* the stream calls pull only while its queue is below the high-water mark
\* of one chunk or a read request is pending
WantsPull(c) == c.pending \/ (IF c.held > 0 THEN 1 ELSE 0) < highWaterMark

InitOf(configs) ==
  /\ params \in configs
  /\ srcPos = 0
  /\ eOuter = IF params.path = "password" /\ params.feed = "pipe" THEN "start" ELSE "none"
  /\ eInner = IF params.path = "key" THEN "readable" ELSE "none"
  /\ LET e == IF params.path = "key" THEN aesCtrEncrypt(params) ELSE NotConstructed
     IN /\ eKey = e.key
        /\ eKeyOk = e.keyOk
        /\ eRestByteSize = e.restByteSize
        /\ eBlock = e.block
        /\ eBlockOffset = e.blockOffset
        /\ eCounter = e.counter
  /\ eBuff = <<>>
  /\ eIv = params.iv
  /\ eQueue = <<>>
  /\ eFed = <<>>
  /\ eOut = <<>>
  /\ eConsumer = NewConsumer(params.consumer)
  /\ wirePos = 0
  /\ dOuter = IF params.path = "password" THEN "magic" ELSE "none"
  /\ dInner = IF params.path = "key" THEN "readable" ELSE "none"
  /\ r1Buff = <<>>
  /\ r1Done = FALSE
  /\ dSalt = <<>>
  /\ iState = "none"
  /\ iQueue = <<>>
  /\ LET d == IF params.path = "key" THEN aesCtrDecrypt(params) ELSE NotConstructed
     IN /\ dKey = d.key
        /\ dKeyOk = d.keyOk
        /\ dRestByteSize = d.restByteSize
        /\ dBlock = d.block
        /\ dBlockOffset = d.blockOffset
        /\ dCounter = d.counter
  /\ dBuff = <<>>
  /\ dIv = params.iv
  /\ dQueue = <<>>
  /\ dFed = <<>>
  /\ dOut = <<>>
  /\ dConsumer = NewConsumer(params.consumer)

Init == InitOf(Configs)

----------------------------------------------------------------------------
(* Encrypt side *)

\* aesCtrEncrypt, pull(ctrl): one read of at most restByteSize bytes, one
\* provider call over the whole block, one chunk enqueued, and the counter
\* step when the block is complete.  On the password path the chunk goes to
\* the queue read by aesCtrEncryptWithPbkdf2's pull, which is filled only
\* while it is below the high-water mark.
aesCtrEncrypt_pull ==
  /\ eInner = "readable"
  /\ IF params.path = "password" THEN Len(eQueue) < highWaterMark
                                 ELSE WantsPull(eConsumer)
  /\ \E r \in ReadUpTo(eBuff, eRestByteSize, SourceReads(params.plain, srcPos, TRUE)) :
       /\ srcPos' = srcPos + r.pulled
       /\ eBuff' = r.buff
       /\ IF r.done
          THEN /\ eInner' = "closed"
               /\ UNCHANGED <<eRestByteSize, eBlock, eBlockOffset, eCounter, eIv,
                              eQueue, eFed, eOut, eConsumer>>
          ELSE LET byteLength == Len(r.value)
                   rest == eRestByteSize - byteLength
                   blk == TypedArraySet(eBlock, r.value, eBlockOffset)
                   blockEncrypted == SubtleEncrypt(eKey, eCounter, blk)
                   encrypted == EncryptedSlice(blockEncrypted, eBlockOffset, byteLength)
               IN /\ eFed' = eFed \o r.value
                  /\ eBlock' = blk
                  /\ IF ~eKeyOk \/ ~CounterOk(eCounter)
                     THEN \* await cryptoKeyPromise, or the provider call, rejects
                          /\ eInner' = "errored"
                          /\ eRestByteSize' = rest
                          /\ eQueue' = <<>>
                          /\ UNCHANGED <<eBlockOffset, eCounter, eIv, eOut, eConsumer>>
                     ELSE /\ eInner' = eInner
                          /\ IF params.path = "key"
                             THEN /\ eOut' = eOut \o encrypted
                                  /\ eConsumer' = Enqueued(eConsumer, encrypted)
                                  /\ eQueue' = eQueue
                             ELSE /\ eQueue' = Append(eQueue, encrypted)
                                  /\ UNCHANGED <<eOut, eConsumer>>
                          /\ IF rest = 0
                             THEN /\ eCounter' = incrementCounter(eCounter)
                                  /\ eIv' = ivAfterCounterWrite(eIv, incrementCounter(eCounter))
                                  /\ eRestByteSize' = blockByteSize
                                  /\ eBlockOffset' = 0
                             ELSE /\ eCounter' = eCounter
                                  /\ eIv' = eIv
                                  /\ eRestByteSize' = rest
                                  /\ eBlockOffset' = eBlockOffset + byteLength
  /\ UNCHANGED <<params, eOuter, eKey, eKeyOk, decVars>>

\* aesCtrEncryptWithPbkdf2, start(ctrl) up to its await: the header is
\* enqueued
aesCtrEncryptWithPbkdf2_start ==
  /\ eOuter = "start"
  /\ eOut' = eOut \o HeaderOf(params.salt)
  /\ eConsumer' = Enqueued(eConsumer, HeaderOf(params.salt))
  /\ eOuter' = "derive"
  /\ UNCHANGED <<params, srcPos, eInner, eKey, eKeyOk, eBuff, eRestByteSize, eBlock,
                 eBlockOffset, eCounter, eIv, eQueue, eFed, decVars>>

\* aesCtrEncryptWithPbkdf2, start(ctrl) after the await: the derivation
\* settles; on success aesCtrEncrypt is constructed over the source
aesCtrEncryptWithPbkdf2_derived ==
  /\ eOuter = "derive"
  /\ LET keyAndIv == deriveKeyAndIvByPbkdf2(params.salt, params.password,
                        params.keyBits, params.iterations, params.hash)
     IN IF keyAndIv.ok
        THEN LET e == aesCtrEncrypt([salt |-> params.salt, key |-> keyAndIv.key,
                                      iv |-> keyAndIv.iv])
             IN /\ eKey' = e.key
                /\ eKeyOk' = e.keyOk
                /\ eRestByteSize' = e.restByteSize
                /\ eBlock' = e.block
                /\ eBlockOffset' = e.blockOffset
                /\ eCounter' = e.counter
             /\ eIv' = keyAndIv.iv
             /\ eInner' = "readable"
             /\ eOuter' = "readable"
        ELSE /\ eOuter' = "errored"
             /\ UNCHANGED <<eKey, eIv, eCounter, eKeyOk, eRestByteSize, eBlock,
                            eBlockOffset, eInner>>
  /\ UNCHANGED <<params, srcPos, eBuff, eQueue, eFed, eOut, eConsumer, decVars>>

\* aesCtrEncryptWithPbkdf2, pull(ctrl): forwards one chunk of aesCtrEncrypt,
\* or its close, or its error
aesCtrEncryptWithPbkdf2_pull ==
  /\ eOuter = "readable"
  /\ WantsPull(eConsumer)
  /\ \/ /\ eQueue # <<>>
        /\ eOut' = eOut \o Head(eQueue)
        /\ eConsumer' = Enqueued(eConsumer, Head(eQueue))
        /\ eQueue' = Tail(eQueue)
        /\ eOuter' = eOuter
     \/ /\ eQueue = <<>>
        /\ eInner = "closed"
        /\ eOuter' = "closed"
        /\ UNCHANGED <<eOut, eQueue, eConsumer>>
     \/ /\ eInner = "errored"
        /\ eOuter' = "errored"
        /\ UNCHANGED <<eOut, eQueue, eConsumer>>
  /\ UNCHANGED <<params, srcPos, eInner, eKey, eKeyOk, eBuff, eRestByteSize, eBlock,
                 eBlockOffset, eCounter, eIv, eFed, decVars>>

----------------------------------------------------------------------------
(* The bytes between the two sides *)

\* state of the stream returned by the encrypt entry point
EncEntry == IF params.path = "key" THEN eInner ELSE eOuter

\* state of the stream returned by the decrypt entry point
DecEntry == IF params.path = "key" THEN dInner ELSE dOuter

\* bytes available to the decrypt side: the encrypt output its consumer has
\* taken, or the hand-made stream, or (feed "same") the source of the encrypt
\* side once more
Wire ==
  IF params.feed = "pipe" THEN Take(eOut, Len(eOut) - eConsumer.held)
  ELSE IF params.feed = "same" THEN params.plain
  ELSE params.crafted

WireEnded == params.feed \in {"crafted", "same"} \/ (EncEntry = "closed" /\ eConsumer.held = 0)

\* one read of the decrypt side's source
WireReads == SourceReads(Wire, wirePos, WireEnded)

----------------------------------------------------------------------------
(* Decrypt side *)

\* one read of aesCtrDecrypt's source: the entry point's source on the key
\* path, the stream of header-stripped bytes on the password path
InnerReads ==
  IF params.path = "key" THEN WireReads
  ELSE IF iQueue # <<>> THEN {[done |-> FALSE, value |-> Head(iQueue)]}
  ELSE IF iState = "closed" THEN {[done |-> TRUE, value |-> <<>>]}
  ELSE {}

\* aesCtrDecrypt, pull(ctrl)
aesCtrDecrypt_pull ==
  /\ dInner = "readable"
  /\ IF params.path = "password" THEN Len(dQueue) < highWaterMark
                                 ELSE WantsPull(dConsumer)
  /\ \E r \in ReadUpTo(dBuff, dRestByteSize, InnerReads) :
       /\ IF params.path = "key"
          THEN wirePos' = wirePos + r.pulled /\ iQueue' = iQueue
          ELSE wirePos' = wirePos
               /\ iQueue' = IF r.pulled > 0 THEN Tail(iQueue) ELSE iQueue
       /\ dBuff' = r.buff
       /\ IF r.done
          THEN /\ dInner' = "closed"
               /\ UNCHANGED <<dRestByteSize, dBlock, dBlockOffset, dCounter, dIv,
                              dQueue, dFed, dOut, dConsumer>>
          ELSE LET byteLength == Len(r.value)
                   rest == dRestByteSize - byteLength
                   blk == TypedArraySet(dBlock, r.value, dBlockOffset)
                   blockDecrypted == SubtleDecrypt(dKey, dCounter, blk)
                   decrypted == DecryptedSlice(blockDecrypted, dBlockOffset, byteLength)
               IN /\ dFed' = dFed \o r.value
                  /\ dBlock' = blk
                  /\ IF ~dKeyOk \/ ~CounterOk(dCounter)
                     THEN \* await cryptoKeyPromise, or the provider call, rejects
                          /\ dInner' = "errored"
                          /\ dRestByteSize' = rest
                          /\ dQueue' = <<>>
                          /\ UNCHANGED <<dBlockOffset, dCounter, dIv, dOut, dConsumer>>
                     ELSE /\ dInner' = dInner
                          /\ IF params.path = "key"
                             THEN /\ dOut' = dOut \o decrypted
                                  /\ dConsumer' = Enqueued(dConsumer, decrypted)
                                  /\ dQueue' = dQueue
                             ELSE /\ dQueue' = Append(dQueue, decrypted)
                                  /\ UNCHANGED <<dOut, dConsumer>>
                          /\ IF rest = 0
                             THEN /\ dCounter' = incrementCounter(dCounter)
                                  /\ dIv' = ivAfterCounterWrite(dIv, incrementCounter(dCounter))
                                  /\ dRestByteSize' = blockByteSize
                                  /\ dBlockOffset' = 0
                             ELSE /\ dCounter' = dCounter
                                  /\ dIv' = dIv
                                  /\ dRestByteSize' = rest
                                  /\ dBlockOffset' = dBlockOffset + byteLength
  /\ UNCHANGED <<params, encVars, dOuter, r1Buff, r1Done, dSalt, iState, dKey, dKeyOk>>

\* encryptedReaderWithSalt.read(8) inside start(): the reader pulls one more
\* chunk of the source while it holds fewer than 8 bytes
encryptedReaderWithSalt_fill ==
  /\ dOuter \in {"magic", "salt"}
  /\ Len(r1Buff) < expectedByteLength
  /\ ~r1Done
  /\ \E r \in WireReads :
       IF r.done
       THEN r1Done' = TRUE /\ UNCHANGED <<r1Buff, wirePos>>
       ELSE /\ r1Buff' = r1Buff \o r.value
            /\ wirePos' = wirePos + Len(r.value)
            /\ r1Done' = r1Done
  /\ UNCHANGED <<params, encVars, dOuter, dInner, dSalt, iState, iQueue, dKey, dKeyOk,
                 dBuff, dRestByteSize, dBlock, dBlockOffset, dCounter, dIv, dQueue,
                 dFed, dOut, dConsumer>>

\* aesCtrDecryptWithPbkdf2, start(): the first read(8) returns and its length
\* is checked
aesCtrDecryptWithPbkdf2_magic ==
  /\ dOuter = "magic"
  /\ Len(r1Buff) >= expectedByteLength \/ r1Done
  /\ LET result == ReadExact(r1Buff, expectedByteLength)
     IN /\ r1Buff' = result.buff
        /\ dOuter' = IF throwIfUnexpectedLength(result, expectedByteLength)
                     THEN "errored" ELSE "salt"
  /\ UNCHANGED <<params, encVars, wirePos, dInner, r1Done, dSalt, iState, iQueue, dKey,
                 dKeyOk, dBuff, dRestByteSize, dBlock, dBlockOffset, dCounter, dIv,
                 dQueue, dFed, dOut, dConsumer>>

\* aesCtrDecryptWithPbkdf2, start(): the second read(8) returns, its length
\* is checked and it becomes the salt
aesCtrDecryptWithPbkdf2_salt ==
  /\ dOuter = "salt"
  /\ Len(r1Buff) >= expectedByteLength \/ r1Done
  /\ LET saltResult == ReadExact(r1Buff, expectedByteLength)
     IN /\ r1Buff' = saltResult.buff
        /\ IF throwIfUnexpectedLength(saltResult, expectedByteLength)
           THEN dOuter' = "errored" /\ dSalt' = dSalt
           ELSE dOuter' = "derive" /\ dSalt' = saltResult.value
  /\ UNCHANGED <<params, encVars, wirePos, dInner, r1Done, iState, iQueue, dKey,
                 dKeyOk, dBuff, dRestByteSize, dBlock, dBlockOffset, dCounter, dIv,
                 dQueue, dFed, dOut, dConsumer>>

\* aesCtrDecryptWithPbkdf2, start(): the derivation settles; on success the
\* stream of the remaining bytes and aesCtrDecrypt over it are constructed
aesCtrDecryptWithPbkdf2_derived ==
  /\ dOuter = "derive"
  /\ LET keyAndIv == deriveKeyAndIvByPbkdf2(dSalt, params.password, params.keyBits,
                        params.iterations, params.hash)
     IN IF keyAndIv.ok
        THEN LET d == aesCtrDecrypt([salt |-> dSalt, key |-> keyAndIv.key,
                                      iv |-> keyAndIv.iv])
             IN /\ dKey' = d.key
                /\ dKeyOk' = d.keyOk
                /\ dRestByteSize' = d.restByteSize
                /\ dBlock' = d.block
                /\ dBlockOffset' = d.blockOffset
                /\ dCounter' = d.counter
             /\ dIv' = keyAndIv.iv
             /\ iState' = "readable"
             /\ dInner' = "readable"
             /\ dOuter' = "readable"
        ELSE /\ dOuter' = "errored"
             /\ UNCHANGED <<dKey, dIv, dCounter, dKeyOk, dRestByteSize, dBlock,
                            dBlockOffset, iState, dInner>>
  /\ UNCHANGED <<params, encVars, wirePos, r1Buff, r1Done, dSalt, iQueue, dBuff,
                 dQueue, dFed, dOut, dConsumer>>

\* pull(ctrl) of the stream constructed in start(): forwards
\* encryptedReaderWithSalt.read(), or closes
encryptedReadableStream_pull ==
  /\ iState = "readable"
  /\ Len(iQueue) < highWaterMark
  /\ \E r \in ReadAny(r1Buff, IF r1Done THEN {[done |-> TRUE, value |-> <<>>]}
                               ELSE WireReads) :
       /\ r1Buff' = r.buff
       /\ wirePos' = wirePos + r.pulled
       /\ IF r.done
          THEN iState' = "closed" /\ iQueue' = iQueue /\ r1Done' = TRUE
          ELSE iState' = iState /\ iQueue' = Append(iQueue, r.value) /\ r1Done' = r1Done
  /\ UNCHANGED <<params, encVars, dOuter, dInner, dSalt, dKey, dKeyOk, dBuff,
                 dRestByteSize, dBlock, dBlockOffset, dCounter, dIv, dQueue, dFed, dOut,
                 dConsumer>>

\* aesCtrDecryptWithPbkdf2, pull(ctrl): forwards one chunk of aesCtrDecrypt,
\* or its close, or its error
aesCtrDecryptWithPbkdf2_pull ==
  /\ dOuter = "readable"
  /\ WantsPull(dConsumer)
  /\ \/ /\ dQueue # <<>>
        /\ dOut' = dOut \o Head(dQueue)
        /\ dConsumer' = Enqueued(dConsumer, Head(dQueue))
        /\ dQueue' = Tail(dQueue)
        /\ dOuter' = dOuter
     \/ /\ dQueue = <<>>
        /\ dInner = "closed"
        /\ dOuter' = "closed"
        /\ UNCHANGED <<dOut, dQueue, dConsumer>>
     \/ /\ dInner = "errored"
        /\ dOuter' = "errored"
        /\ UNCHANGED <<dOut, dQueue, dConsumer>>
  /\ UNCHANGED <<params, encVars, wirePos, dInner, r1Buff, r1Done, dSalt, iState,
                 iQueue, dKey, dKeyOk, dBuff, dRestByteSize, dBlock, dBlockOffset,
                 dCounter, dIv, dFed>>

\* the encrypt entry point's stream has errored: the pending read of the
\* decrypt side's source rejects, and with it the decrypt streams
sourceRejects ==
  /\ params.feed = "pipe"
  /\ EncEntry = "errored"
  /\ DecEntry \notin {"closed", "errored"}
  /\ IF params.path = "key"
     THEN dInner' = "errored" /\ UNCHANGED <<dOuter, iState>>
     ELSE /\ dOuter' = "errored"
          /\ dInner' = IF dInner = "readable" THEN "errored" ELSE dInner
          /\ iState' = IF iState = "readable" THEN "errored" ELSE iState
  /\ UNCHANGED <<params, encVars, wirePos, r1Buff, r1Done, dSalt, iQueue, dKey, dKeyOk,
                 dBuff, dRestByteSize, dBlock, dBlockOffset, dCounter, dIv, dQueue,
                 dFed, dOut, dConsumer>>

----------------------------------------------------------------------------
(* Consumers that read when they please *)

\* reader.read() on a stream: takes the queued chunk, or leaves a read request
ConsumerRead(c) ==
  IF c.held > 0 THEN [held |-> 0, pending |-> FALSE, asked |-> TRUE]
  ELSE [held |-> 0, pending |-> TRUE, asked |-> TRUE]

\* the consumer of the encrypt entry point's stream calls read()
consumerReads_encrypted ==
  /\ params.consumer = "lazy"
  /\ ~eConsumer.pending
  /\ eConsumer.held > 0 \/ EncEntry \notin {"closed", "errored"}
  /\ eConsumer' = ConsumerRead(eConsumer)
  /\ UNCHANGED <<params, srcPos, eOuter, eInner, eKey, eKeyOk, eBuff, eRestByteSize,
                 eBlock, eBlockOffset, eCounter, eIv, eQueue, eFed, eOut, decVars>>

\* the consumer of the decrypt entry point's stream calls read()
consumerReads_decrypted ==
  /\ params.consumer = "lazy"
  /\ ~dConsumer.pending
  /\ dConsumer.held > 0 \/ DecEntry \notin {"closed", "errored"}
  /\ dConsumer' = ConsumerRead(dConsumer)
  /\ UNCHANGED <<params, encVars, wirePos, dOuter, dInner, r1Buff, r1Done, dSalt,
                 iState, iQueue, dKey, dKeyOk, dBuff, dRestByteSize, dBlock,
                 dBlockOffset, dCounter, dIv, dQueue, dFed, dOut>>

----------------------------------------------------------------------------
(* Specification *)

Next ==
  \/ aesCtrEncrypt_pull
  \/ aesCtrEncryptWithPbkdf2_start
  \/ aesCtrEncryptWithPbkdf2_derived
  \/ aesCtrEncryptWithPbkdf2_pull
  \/ aesCtrDecrypt_pull
  \/ encryptedReaderWithSalt_fill
  \/ aesCtrDecryptWithPbkdf2_magic
  \/ aesCtrDecryptWithPbkdf2_salt
  \/ aesCtrDecryptWithPbkdf2_derived
  \/ encryptedReadableStream_pull
  \/ aesCtrDecryptWithPbkdf2_pull
  \/ sourceRejects

Spec == Init /\ [][Next]_vars

\* every handler that can run does run in the end: the consumers keep reading
\* and the event loop runs each settled promise's continuation
\* the fair runs: sources that end inside a block and on a block boundary,
\* and the runs that end in an error
FairPlainLens == {5, blockByteSize}

FairConfigs ==
  {KeyConfig("pipe", n, k, IvTest, SaltTest, "eager")
     : n \in FairPlainLens, k \in {Key32, ShortKey}}
  \cup
  {c \in Configs : /\ c.path = "password"
                    /\ c.salt \in {SaltTest, NoBytes}
                    /\ c.keyBits \in {128, 64}
                    /\ \/ c.feed = "pipe" /\ Len(c.plain) = 5
                       \/ c.feed = "crafted" /\ Len(c.crafted) \in {12, Len(HeaderOf(SaltTest))}}

InitFair == InitOf(FairConfigs)

FairSpec == InitFair /\ [][Next]_vars /\ WF_vars(Next)

\* aesCtrEncrypt and aesCtrDecrypt created side by side from the same params
\* object over two streams of the same source bytes, pulled in any
\* interleaving
SameSourceConfigs ==
  {KeyConfig("same", n, Key32, iv, SaltTest, "eager") : n \in PlainLens, iv \in {IvTest, IvAllOnes}}

InitSame == InitOf(SameSourceConfigs)

NextSame ==
  \/ aesCtrEncrypt_pull
  \/ aesCtrDecrypt_pull

SpecSame == InitSame /\ [][NextSame]_vars

\* runs whose consumers call read() when they please, or never
DemandPlainLens == {5, MaxPwPlainLen}

DemandConfigs ==
  {KeyConfig("pipe", n, Key32, IvTest, SaltTest, "lazy") : n \in DemandPlainLens}
  \cup
  {[path |-> "password", feed |-> "pipe", plain |-> Plaintext(5), key |-> NoBytes,
    iv |-> NoBytes, password |-> pw, salt |-> SaltTest, keyBits |-> kb,
    iterations |-> it, hash |-> h, crafted |-> NoBytes, consumer |-> "lazy"]
     : pw \in Passwords, kb \in {128, 64}, it \in Iterations, h \in Hashes}
  \cup
  {[path |-> "password", feed |-> "crafted", plain |-> NoBytes, key |-> NoBytes,
    iv |-> NoBytes, password |-> pw, salt |-> NoBytes, keyBits |-> 128,
    iterations |-> it, hash |-> h, crafted |-> HeaderOf(SaltTest) \o Plaintext(n),
    consumer |-> "lazy"]
     : pw \in Passwords, it \in Iterations, h \in Hashes, n \in DemandPlainLens}

InitDemand == InitOf(DemandConfigs)

NextDemand ==
  \/ Next
  \/ consumerReads_encrypted
  \/ consumerReads_decrypted

SpecDemand == InitDemand /\ [][NextDemand]_vars

----------------------------------------------------------------------------
(* Reference values the properties are stated against *)

\* big-endian addition of n to a byte array, modulo 256^Len, by ripple carry
RECURSIVE AddBigEndian(_, _, _, _)
AddBigEndian(bytes, i, n, carry) ==
  IF i = 0 THEN bytes
  ELSE LET t == bytes[i] + (n % 256) + carry
       IN AddBigEndian([bytes EXCEPT ![i] = t % 256], i - 1, n \div 256, t \div 256)

CounterPlus(iv, n) == AddBigEndian(iv, Len(iv), n, 0)

\* one-shot CTR of data: the byte at 0-based offset o is
\* data[o] XOR keystream(iv + floor(o / 16))[o mod 16]
RECURSIVE CtrFromBlock(_, _, _, _)
CtrFromBlock(data, key, iv, b) ==
  IF data = <<>> THEN <<>>
  ELSE LET ks == Keystream(key, CounterPlus(iv, b))
           first == Take(data, blockByteSize)
       IN [j \in 1..Len(first) |-> Xor(first[j], ks[j])]
            \o CtrFromBlock(Drop(data, blockByteSize), key, iv, b + 1)

OneShotCtr(data, key, iv) == CtrFromBlock(data, key, iv, 0)

IsPrefix(s, t) == Len(s) <= Len(t) /\ s = SubSeq(t, 1, Len(s))

RECURSIVE QueueBytes(_)
QueueBytes(q) == IF q = <<>> THEN <<>> ELSE Head(q) \o QueueBytes(Tail(q))

\* all bytes aesCtrEncrypt has enqueued so far
EncEmitted ==
  IF params.path = "key" THEN eOut
  ELSE Drop(eOut, Len(Salted__) + 8) \o QueueBytes(eQueue)

\* all bytes aesCtrDecrypt has enqueued so far
DecEmitted ==
  IF params.path = "key" THEN dOut ELSE dOut \o QueueBytes(dQueue)

----------------------------------------------------------------------------
(* Properties *)

\* C1: whatever the chunking of the plaintext, the bytes emitted by
\* aesCtrEncrypt are at every moment a prefix of the one-shot CTR of the
\* plaintext under the key and the initial counter, and all of it once the
\* stream is closed.
C1_ChunkBoundaryIndependence ==
  eInner # "none" =>
    /\ IsPrefix(EncEmitted, OneShotCtr(params.plain, eKey, eIv))
    /\ eInner = "closed" => EncEmitted = OneShotCtr(params.plain, eKey, eIv)

\* the longest plaintext, more than two blocks, has been encrypted to the end
C1_Witness ==
  /\ params.path = "key"
  /\ eInner = "closed"
  /\ Len(eOut) = MaxPlainLen
  /\ eOut # params.plain

\* C2: on the explicit-key path, for every chunking of the plaintext and every
\* re-chunking of the ciphertext, aesCtrDecrypt's output is a prefix of the
\* plaintext, and the whole plaintext once its stream is closed.
C2_RoundTrip ==
  params.path = "key" =>
    /\ IsPrefix(dOut, params.plain)
    /\ dInner = "closed" => dOut = params.plain

C2_Witness ==
  /\ params.path = "key"
  /\ dInner = "closed"
  /\ Len(dOut) = MaxPlainLen
  /\ eOut # params.plain

\* C5: between pulls, the counter of aesCtrEncrypt and of aesCtrDecrypt is
\* the initial counter plus the number of whole blocks among the payload
\* bytes processed so far, modulo 2^128.
C5_CounterPosition ==
  /\ eInner \in {"readable", "closed"} =>
       eCounter = CounterPlus(eIv, Len(eFed) \div blockByteSize)
  /\ dInner \in {"readable", "closed"} =>
       dCounter = CounterPlus(dIv, Len(dFed) \div blockByteSize)

\* the all-ones counter has wrapped to zero and moved on to one
C5_Witness ==
  /\ eIv = IvAllOnes
  /\ eInner = "readable"
  /\ Len(eFed) = 2 * blockByteSize
  /\ eCounter = [i \in 1..blockByteSize |-> IF i = blockByteSize THEN 1 ELSE 0]

\* C3: on the password path, whatever the chunking of the plaintext and of
\* the encrypt output, the decrypt side derives the key and iv the encrypt
\* side used, its output is a prefix of the plaintext, and it is the whole
\* plaintext once its stream is closed.
C3_PasswordRoundTrip ==
  (params.path = "password" /\ params.feed = "pipe") =>
    /\ IsPrefix(dOut, params.plain)
    /\ dOuter = "closed" => dOut = params.plain
    /\ (eInner # "none" /\ dInner # "none") => (dKey = eKey /\ dIv = eIv)

C3_Witness ==
  /\ params.path = "password"
  /\ params.feed = "pipe"
  /\ dOuter = "closed"
  /\ Len(dOut) = MaxPwPlainLen
  /\ dOut # Drop(eOut, blockByteSize)

\* C4 as stated: after every completed pull the number of bytes emitted by
\* aesCtrEncrypt (aesCtrDecrypt) equals the number of bytes read from its
\* source so far.
C4_EmittedEqualsReadFromSource ==
  /\ eInner \in {"readable", "closed"} => Len(EncEmitted) = srcPos
  /\ (params.path = "key" /\ dInner \in {"readable", "closed"}) =>
       Len(DecEmitted) = wirePos

\* C4, amended: after every completed pull the number of bytes emitted equals
\* the number of bytes the sized reader has handed to pull, which is the
\* number of bytes read from the source less the reader's backlog; when the
\* output closes the backlog is empty and the output byte count equals the
\* input byte count.
C4_LengthPreservation ==
  /\ eInner \in {"readable", "closed"} =>
       /\ Len(EncEmitted) = Len(eFed)
       /\ Len(eFed) = srcPos - Len(eBuff)
  /\ eInner = "closed" =>
       /\ eBuff = <<>>
       /\ Len(EncEmitted) = Len(params.plain)
  /\ dInner \in {"readable", "closed"} =>
       /\ Len(DecEmitted) = Len(dFed)
       /\ params.path = "key" => Len(dFed) = wirePos - Len(dBuff)
  /\ dInner = "closed" =>
       /\ dBuff = <<>>
       /\ Len(DecEmitted) =
            Len(Wire) - (IF params.path = "key" THEN 0 ELSE 2 * expectedByteLength)

\* a pull has completed while the reader holds back part of a source chunk
C4_Witness ==
  /\ eInner = "readable"
  /\ eBuff # <<>>
  /\ Len(EncEmitted) = blockByteSize
  /\ srcPos > blockByteSize

\* C6: the output of aesCtrEncryptWithPbkdf2 is empty until start() has run,
\* then begins with the 16 bytes "Salted__" + salt; the key and iv in use are
\* the ones derived from the salt in the header; everything after byte 16 is
\* a prefix of the one-shot CTR of the source, and all of it once the stream
\* is closed.
C6_HeaderFraming ==
  (params.path = "password" /\ params.feed = "pipe") =>
    /\ eOuter = "start" => eOut = <<>>
    /\ eOuter # "start" =>
         /\ Len(eOut) >= 2 * expectedByteLength
         /\ SubSeq(eOut, 1, 8) = Salted__
         /\ SubSeq(eOut, 9, 16) = params.salt
    /\ eInner = "none" => Len(eOut) <= 2 * expectedByteLength
    /\ eInner # "none" =>
         LET keyAndIv == deriveKeyAndIvByPbkdf2(SubSeq(eOut, 9, 16), params.password,
                            params.keyBits, params.iterations, params.hash)
         IN /\ eKey = keyAndIv.key
            /\ eIv = keyAndIv.iv
            /\ IsPrefix(Drop(eOut, 16), OneShotCtr(params.plain, eKey, eIv))
    /\ eOuter = "closed" => Drop(eOut, 16) = OneShotCtr(params.plain, eKey, eIv)

C6_Witness ==
  /\ params.path = "password"
  /\ eOuter = "closed"
  /\ Len(eOut) = 16 + MaxPwPlainLen
  /\ Drop(eOut, 16) # params.plain

\* C7: aesCtrDecryptWithPbkdf2 takes bytes [8..16) of its source as the salt,
\* and the bytes after the first 16 reach aesCtrDecrypt's pull in order, none
\* lost or duplicated: at every moment the bytes handed to pull followed by
\* the bytes held in the readers and the queue between them are exactly the
\* source bytes pulled after the header, and all of them have been handed to
\* pull once aesCtrDecrypt's stream is closed.
C7_HeaderConsumption ==
  params.path = "password" =>
    /\ dOuter \in {"derive", "readable", "closed"} =>
         /\ wirePos >= 16
         /\ dSalt = SubSeq(Wire, 9, 16)
    /\ dOuter = "derive" => r1Buff = SubSeq(Wire, 17, wirePos)
    /\ dInner # "none" =>
         dFed \o dBuff \o QueueBytes(iQueue) \o r1Buff = SubSeq(Wire, 17, wirePos)
    /\ dInner = "closed" => dFed = Drop(Wire, 16)

C7_Witness ==
  /\ params.path = "password"
  /\ params.feed = "pipe"
  /\ dInner = "closed"
  /\ Len(dFed) = MaxPwPlainLen

\* a source of the password decrypt path that ends before byte 16
ShortSource ==
  /\ params.path = "password"
  /\ params.feed = "crafted"
  /\ Len(params.crafted) < 2 * expectedByteLength

\* C8: when the source of aesCtrDecryptWithPbkdf2 is shorter than 16 bytes,
\* start() never completes, no byte reaches aesCtrDecrypt or the output, and
\* the stream can only come to rest in the errored state.
C8_MalformedHeader ==
  ShortSource =>
    /\ dOuter \in {"magic", "salt", "errored"}
    /\ dInner = "none"
    /\ dFed = <<>>
    /\ dOut = <<>>
    /\ ~(ENABLED Next) => dOuter = "errored"

\* the second header read came back short and the stream is errored
C8_Witness ==
  /\ ShortSource
  /\ Len(params.crafted) = 12
  /\ r1Done
  /\ dOuter = "errored"

\* C9: when the first 8 bytes of the source of aesCtrDecryptWithPbkdf2 are
\* not "Salted__", the stream never becomes readable or closed and no
\* plaintext is emitted.
C9_MagicValidation ==
  (params.path = "password" /\ Len(Wire) >= 8 /\ SubSeq(Wire, 1, 8) # Salted__) =>
    /\ dOuter \notin {"readable", "closed"}
    /\ dOut = <<>>

\* C10: with keyBits outside {128, 256} the password entry points read no
\* byte from their source and emit no byte, header included.
C10_KeyBitsFailFast ==
  (params.path = "password" /\ params.keyBits \notin {128, 256}) =>
    /\ srcPos = 0
    /\ wirePos = 0
    /\ eOut = <<>>
    /\ dOut = <<>>

----------------------------------------------------------------------------
(* Parameters of the explicit-key entry points *)

\* a key, iv or salt of the explicit-key path with a length the claim C11 calls
\* a parameter error
BadKeyPathParams ==
  /\ params.path = "key"
  /\ \/ Len(params.key) \notin {16, 32}
     \/ Len(params.iv) # 16
     \/ Len(params.salt) # 8

\* C11: on the explicit-key path a key that is not 16 or 32 bytes long, an iv
\* that is not 16 bytes long or a salt that is not 8 bytes long is a fatal
\* error raised before any byte is read from the source and before any byte
\* is emitted; the stream never closes normally.
C11_ParameterErrors ==
  BadKeyPathParams =>
    /\ srcPos = 0
    /\ eOut = <<>>
    /\ eInner # "closed"

----------------------------------------------------------------------------
(* Two transforms over the same iv *)

----------------------------------------------------------------------------
(* Progress on demand *)

\* C13, as stated: a transform whose consumer has requested nothing has read
\* nothing from its source and made no cipher-provider call.
C13_OnlyOnDemand ==
  /\ ~eConsumer.asked => (srcPos = 0 /\ eFed = <<>>)
  /\ ~dConsumer.asked => (wirePos = 0 /\ dFed = <<>>)

\* bytes the consumer has taken from an entry point's stream, header excluded
TakenPayload(out, c, header) ==
  LET taken == Len(out) - c.held
  IN IF taken > header THEN taken - header ELSE 0

\* cipher output of the encrypt side not yet taken by its consumer
EncRunAhead ==
  Len(eFed) - TakenPayload(eOut, eConsumer,
                           IF params.path = "password" THEN Len(HeaderOf(params.salt)) ELSE 0)

\* cipher output of the decrypt side not yet taken by its consumer
DecRunAhead == Len(dFed) - TakenPayload(dOut, dConsumer, 0)

\* no read request is pending and every queue between the cipher and the
\* consumer holds a chunk
EncQueuesFull ==
  /\ ~eConsumer.pending
  /\ eConsumer.held > 0
  /\ params.path = "password" => eQueue # <<>>

DecQueuesFull ==
  /\ ~dConsumer.pending
  /\ dConsumer.held > 0
  /\ params.path = "password" => (dQueue # <<>> /\ iQueue # <<>>)

\* C13 (amended): the work done ahead of the consumer is bounded by the
\* queues.  The cipher output not yet taken never exceeds one chunk of at
\* most a block per stream of the chain (one on the explicit-key path, two on
\* the password path), and once every queue of a chain holds a chunk and no
\* read request is pending, no pull handler of that chain can run: no source
\* read and no provider call occurs until the consumer reads again.
C13_BoundedRunAhead ==
  /\ Len(eQueue) <= 1 /\ Len(dQueue) <= 1 /\ Len(iQueue) <= 1
  /\ EncRunAhead <= (IF params.path = "password" THEN 2 ELSE 1) * blockByteSize
  /\ DecRunAhead <= (IF params.path = "password" THEN 2 ELSE 1) * blockByteSize
  /\ EncQueuesFull =>
       /\ ~ENABLED aesCtrEncrypt_pull
       /\ ~ENABLED aesCtrEncryptWithPbkdf2_pull
  /\ DecQueuesFull =>
       /\ ~ENABLED aesCtrDecrypt_pull
       /\ ~ENABLED encryptedReadableStream_pull
       /\ ~ENABLED aesCtrDecryptWithPbkdf2_pull

\* the consumer of the password decrypt path has never called read(): the
\* header was read and the first chunks were produced all the same, and now
\* every queue holds a chunk and the chain is at rest with input left over
C13_Witness ==
  /\ params.path = "password"
  /\ params.feed = "crafted"
  /\ ~dConsumer.asked
  /\ DecQueuesFull
  /\ wirePos > Len(HeaderOf(dSalt))
  /\ dFed # <<>>
  /\ wirePos - Len(HeaderOf(dSalt)) < MaxPwPlainLen \/ r1Buff # <<>> \/ dBuff # <<>>

----------------------------------------------------------------------------
(* Termination *)

\* parameters the cipher accepts and, for a hand-made input of the password
\* decrypt path, a whole header
WellFormedRun ==
  /\ params.path = "key" => (ImportKeyOk(params.key) /\ CounterOk(params.iv))
  /\ params.path = "password" => params.keyBits \in {128, 256}
  /\ params.feed = "crafted" => Len(params.crafted) >= Len(Salted__) + expectedByteLength

\* both entry points' streams are closed; on a hand-made input only the
\* decrypt side runs
AllClosed ==
  /\ DecEntry = "closed"
  /\ params.feed = "pipe" => EncEntry = "closed"

\* C14: when the source ends and the consumer keeps pulling, the output of
\* every run with accepted parameters is eventually closed, not errored,
\* whether the source ended on a block boundary or inside a block; a closed
\* transform stays closed and after it no source read, no counter change and
\* no emission of that transform occurs.
C14_Termination ==
  /\ WellFormedRun ~> AllClosed
  /\ [][eInner = "closed" =>
          (eInner' = "closed" /\ UNCHANGED <<srcPos, eCounter, eFed, EncEmitted>>)]_vars
  /\ [][dInner = "closed" =>
          (dInner' = "closed" /\ UNCHANGED <<wirePos, dCounter, dFed, DecEmitted>>)]_vars
  /\ [][EncEntry = "closed" => (EncEntry' = "closed" /\ eOut' = eOut)]_vars
  /\ [][DecEntry = "closed" => (DecEntry' = "closed" /\ dOut' = dOut)]_vars

\* a source that ended inside its first block, and both streams closed
C14_Witness ==
  /\ params.path = "key"
  /\ Len(params.plain) \in 1..(blockByteSize - 1)
  /\ eInner = "closed"
  /\ dInner = "closed"
  /\ eBlockOffset = Len(params.plain)
  /\ dOut = params.plain

----------------------------------------------------------------------------
(* The counter step *)

\* c2 is c plus one as a big-endian number modulo 256^Len(c): the trailing
\* bytes 255 have become 0, the byte before them has grown by one and the
\* bytes before that are as they were; when every byte is 255, every byte
\* has become 0
BigEndianSuccessor(c, c2) ==
  /\ Len(c2) = Len(c)
  /\ \/ \E k \in 1..Len(c) :
          /\ c[k] # 255
          /\ c2[k] = c[k] + 1
          /\ \A j \in (k + 1)..Len(c) : c[j] = 255 /\ c2[j] = 0
          /\ \A j \in 1..(k - 1) : c2[j] = c[j]
     \/ \A j \in 1..Len(c) : c[j] = 255 /\ c2[j] = 0

\* C15: every step that changes the counter of a running transform replaces
\* it by its big-endian successor modulo 2^128, with the carry running from
\* the last byte backward, all-ones wrapping to all-zeros and the length
\* staying 16.
C15_CounterIncrement ==
  /\ [][(eInner = "readable" /\ eCounter' # eCounter) =>
          (BigEndianSuccessor(eCounter, eCounter') /\ Len(eCounter') = 16)]_vars
  /\ [][(dInner = "readable" /\ dCounter' # dCounter) =>
          (BigEndianSuccessor(dCounter, dCounter') /\ Len(dCounter') = 16)]_vars

\* the counter that started at FF .. FF has wrapped to 00 .. 00
C15_Witness ==
  /\ eIv = IvAllOnes
  /\ Len(eFed) = blockByteSize
  /\ eCounter = ZeroBlock

----------------------------------------------------------------------------
(* The salt parameter of the explicit-key entry points *)

\* the closure variables of the encrypt side and of the decrypt side
EncClosure ==
  [key |-> eKey, keyOk |-> eKeyOk, restByteSize |-> eRestByteSize, block |-> eBlock,
   blockOffset |-> eBlockOffset, counter |-> eCounter]

DecClosure ==
  [key |-> dKey, keyOk |-> dKeyOk, restByteSize |-> dRestByteSize, block |-> dBlock,
   blockOffset |-> dBlockOffset, counter |-> dCounter]

\* C16: on the explicit-key path the output is the same whatever the salt
\* parameter.  A transform that has not pulled yet is in the state it would
\* be in with any other salt, and at every moment the bytes emitted are the
\* one-shot CTR, under key and iv alone, of the bytes processed: as many bytes
\* as were processed, none of them a salt byte.
C16_SaltNotLoadBearing ==
  (params.path = "key" /\ ImportKeyOk(params.key) /\ CounterOk(params.iv)) =>
    /\ (eInner = "readable" /\ eFed = <<>>) =>
         \A s \in KeySalts : EncClosure = aesCtrEncrypt([params EXCEPT !.salt = s])
    /\ (dInner = "readable" /\ dFed = <<>>) =>
         \A s \in KeySalts : DecClosure = aesCtrDecrypt([params EXCEPT !.salt = s])
    /\ eInner \in {"readable", "closed"} =>
         eOut = Take(OneShotCtr(params.plain, params.key, params.iv), Len(eFed))
    /\ dInner \in {"readable", "closed"} =>
         dOut = Take(OneShotCtr(Wire, params.key, params.iv), Len(dFed))

\* a run with the 4-byte salt has closed with the whole ciphertext emitted
\* and decrypted again
C16_Witness ==
  /\ params.path = "key"
  /\ params.salt = ShortSalt
  /\ Len(params.plain) = MaxPlainLen
  /\ eInner = "closed"
  /\ eOut = OneShotCtr(params.plain, params.key, params.iv)
  /\ dInner = "closed"
  /\ dOut = params.plain

----------------------------------------------------------------------------
(* aesCtrEncrypt and aesCtrDecrypt side by side *)

\* C17: aesCtrEncrypt and aesCtrDecrypt run on the same source bytes, key and
\* iv are the same machine: whenever both have processed the same number of
\* bytes they have the same key, restByteSize, block, blockOffset and counter
\* and have emitted the same bytes, and at any other moment the output of the
\* one that is behind is a prefix of the other's.
C17_EncryptDecryptSymmetry ==
  /\ Len(eFed) = Len(dFed) => (EncClosure = DecClosure /\ eOut = dOut)
  /\ Len(eFed) <= Len(dFed) => IsPrefix(eOut, dOut)
  /\ Len(dFed) <= Len(eFed) => IsPrefix(dOut, eOut)
  /\ Len(eOut) = Len(eFed)
  /\ Len(dOut) = Len(dFed)

\* both have processed the whole source, across two block boundaries, and
\* closed with the same output, which is not the input
C17_Witness ==
  /\ params.feed = "same"
  /\ Len(params.plain) = MaxPlainLen
  /\ eInner = "closed"
  /\ dInner = "closed"
  /\ eFed = params.plain
  /\ dFed = params.plain
  /\ eOut = dOut
  /\ eOut # params.plain
  /\ eBlockOffset = dBlockOffset
  /\ eCounter = dCounter
  /\ eCounter # params.iv

----------------------------------------------------------------------------
(* The block window *)

\* between pulls the offset is inside the block and offset and rest add up to
\* the block size
WindowInv(state, block, blockOffset, restByteSize) ==
  state \in {"readable", "closed"} =>
    /\ blockOffset \in 0..(blockByteSize - 1)
    /\ blockOffset + restByteSize = blockByteSize
    /\ Len(block) = blockByteSize

\* a step from a running transform: a pull that received n > 0 bytes got no
\* more than rest, stayed inside the window, and stepped the counter and
\* reset offset and rest exactly when it filled the window; any other step
\* left counter, offset and rest alone
WindowStep(state, n, blockOffset, restByteSize, counterChanged, blockOffset2,
           restByteSize2, state2) ==
  state = "readable" =>
    IF n > 0
    THEN /\ n <= restByteSize
         /\ blockOffset + n <= blockByteSize
         /\ state2 = "readable" =>
              /\ (blockOffset + n = blockByteSize) <=> counterChanged
              /\ (blockOffset + n = blockByteSize) <=>
                   (blockOffset2 = 0 /\ restByteSize2 = blockByteSize)
              /\ (blockOffset + n < blockByteSize) =>
                   (blockOffset2 = blockOffset + n /\ restByteSize2 = restByteSize - n)
    ELSE /\ ~counterChanged
         /\ blockOffset2 = blockOffset
         /\ restByteSize2 = restByteSize

\* C18: between pulls blockOffset is in 0..15 and blockOffset + restByteSize
\* = 16; a pull never receives more bytes than restByteSize, so the write
\* into the window ends inside it; the counter is stepped, and blockOffset
\* and restByteSize are reset to 0 and 16, in the pulls that fill the window
\* and in no other step.
C18_BlockWindow ==
  /\ [](WindowInv(eInner, eBlock, eBlockOffset, eRestByteSize)
        /\ WindowInv(dInner, dBlock, dBlockOffset, dRestByteSize))
  /\ [][WindowStep(eInner, Len(eFed') - Len(eFed), eBlockOffset, eRestByteSize,
                   eCounter' # eCounter, eBlockOffset', eRestByteSize', eInner')]_vars
  /\ [][WindowStep(dInner, Len(dFed') - Len(dFed), dBlockOffset, dRestByteSize,
                   dCounter' # dCounter, dBlockOffset', dRestByteSize', dInner')]_vars

\* two blocks were completed, the second in more than one pull: the counter
\* is two steps on, offset and rest are back at 0 and 16 and the window still
\* holds the second block
C18_Witness ==
  /\ eInner = "readable"
  /\ Len(eFed) = 2 * blockByteSize
  /\ Len(params.plain) > 2 * blockByteSize
  /\ eBlockOffset = 0
  /\ eRestByteSize = blockByteSize
  /\ eCounter = CounterPlus(eIv, 2)
  /\ eBlock = SubSeq(eFed, blockByteSize + 1, 2 * blockByteSize)

----------------------------------------------------------------------------
(* One pull *)

\* the provider result over a whole window: window XOR keystream(key, counter)
BlockResult(key, counter, window) ==
  LET ks == Keystream(key, counter)
  IN [j \in 1..blockByteSize |-> Xor(window[j], ks[j])]

\* a pull that received bytes and left the stream readable: the window is
\* the old one with the received bytes at the old offset, and what was
\* emitted is one chunk, the slice [oldOffset, oldOffset + n) of the provider
\* result over that whole window under the counter the pull began with; a
\* pull that closed the stream emitted nothing
PullStep(state, state2, key, counter, block, blockOffset, fed, fed2, block2,
         emitted, emitted2, queue, queue2) ==
  /\ (state = "readable" /\ state2 = "readable" /\ fed2 # fed) =>
       LET n == Len(fed2) - Len(fed)
           received == SubSeq(fed2, Len(fed) + 1, Len(fed2))
           chunk == SubSeq(BlockResult(key, counter, block2),
                           blockOffset + 1, blockOffset + n)
       IN /\ Len(block2) = blockByteSize
          /\ block2 = [j \in 1..blockByteSize |->
                         IF j > blockOffset /\ j <= blockOffset + n
                         THEN received[j - blockOffset] ELSE block[j]]
          /\ emitted2 = emitted \o chunk
          /\ Len(emitted2) - Len(emitted) = n
          /\ params.path = "password" => queue2 = Append(queue, chunk)
  /\ (state = "readable" /\ state2 = "closed") =>
       (emitted2 = emitted /\ fed2 = fed)

\* C19: every pull of aesCtrEncrypt and aesCtrDecrypt that does not close the
\* stream applies the provider to the whole 16-byte window under the current
\* counter and emits one chunk, the slice [oldOffset, newOffset) of the
\* result, as long as the bytes received in that pull.
C19_PerPullStep ==
  /\ [][PullStep(eInner, eInner', eKey, eCounter, eBlock, eBlockOffset, eFed, eFed',
                 eBlock', EncEmitted, EncEmitted', eQueue, eQueue')]_vars
  /\ [][PullStep(dInner, dInner', dKey, dCounter, dBlock, dBlockOffset, dFed, dFed',
                 dBlock', DecEmitted, DecEmitted', dQueue, dQueue')]_vars

\* the last pull received bytes into the middle of the second block and its
\* chunk is the matching part of the provider result
C19_Witness ==
  /\ eInner = "readable"
  /\ Len(eFed) > blockByteSize
  /\ eBlockOffset \in 2..(blockByteSize - 1)
  /\ eCounter = CounterPlus(eIv, 1)
  /\ Len(EncEmitted) = Len(eFed)
  /\ SubSeq(EncEmitted, blockByteSize + 1, Len(eFed))
       = SubSeq(BlockResult(eKey, eCounter, eBlock), 1, eBlockOffset)

----------------------------------------------------------------------------
(* What the window held before *)

\* windows that differ from one another at every position
StaleWindows == {ZeroBlock, [j \in 1..blockByteSize |-> (j * 29 + 3) % 256]}

\* a pull that received bytes and left the stream readable emitted the
\* received bytes XOR the keystream bytes at their offsets in the block, and
\* would have emitted the same chunk had the window held anything else
\* outside the part the pull wrote
StaleFreeStep(state, state2, key, counter, blockOffset, fed, fed2, emitted, emitted2,
              encrypting) ==
  (state = "readable" /\ state2 = "readable" /\ fed2 # fed) =>
    LET n == Len(fed2) - Len(fed)
        received == SubSeq(fed2, Len(fed) + 1, Len(fed2))
        chunk == SubSeq(emitted2, Len(emitted) + 1, Len(emitted2))
        ks == Keystream(key, counter)
    IN /\ chunk = [i \in 1..n |-> Xor(received[i], ks[blockOffset + i])]
       /\ \A stale \in StaleWindows :
            LET window == TypedArraySet(stale, received, blockOffset)
            IN chunk = IF encrypting
                       THEN EncryptedSlice(SubtleEncrypt(key, counter, window),
                                           blockOffset, n)
                       ELSE DecryptedSlice(SubtleDecrypt(key, counter, window),
                                           blockOffset, n)

\* C20: the chunk emitted in a pull depends only on the bytes received in
\* that pull, their offset in the block, the key and the current counter: it
\* is the same chunk whatever the window holds outside [oldOffset, newOffset),
\* although the window is never cleared.
C20_NoStaleLeak ==
  /\ [][StaleFreeStep(eInner, eInner', eKey, eCounter, eBlockOffset, eFed, eFed',
                      EncEmitted, EncEmitted', TRUE)]_vars
  /\ [][StaleFreeStep(dInner, dInner', dKey, dCounter, dBlockOffset, dFed, dFed',
                      DecEmitted, DecEmitted', FALSE)]_vars

\* the second block is partly written: the window still holds bytes of the
\* first block after the offset, and the bytes emitted for the second block
\* are the received bytes XOR the keystream
C20_Witness ==
  /\ eInner = "readable"
  /\ Len(eFed) > blockByteSize
  /\ eBlockOffset \in 1..(blockByteSize - 1)
  /\ \A j \in (eBlockOffset + 1)..blockByteSize : eBlock[j] = eFed[j]
  /\ eBlock # TypedArraySet(ZeroBlock, SubSeq(eFed, blockByteSize + 1, Len(eFed)), 0)
  /\ SubSeq(EncEmitted, blockByteSize + 1, Len(eFed))
       = [i \in 1..eBlockOffset |->
            Xor(eFed[blockByteSize + i], Keystream(eKey, eCounter)[i])]

----------------------------------------------------------------------------
(* Sequential ordering inside one transform *)

\* the state a transform is in between two pulls: the bytes processed and
\* the bytes still held by its reader are, in order, the bytes taken from the
\* source; every byte processed has been emitted; offset and counter are
\* those of whole pulls, the counter one step on per completed block
BetweenPulls(state, source, taken, buff, fed, emitted, iv, counter, blockOffset) ==
  state \in {"readable", "closed"} =>
    /\ fed \o buff = Take(source, taken)
    /\ Len(emitted) = Len(fed)
    /\ blockOffset = Len(fed) % blockByteSize
    /\ counter = CounterPlus(iv, Len(fed) \div blockByteSize)

\* one step of a running transform is at most one whole pull cycle: the
\* bytes it processed are the next bytes of the source, the bytes it emitted
\* were appended after the earlier ones and are as many, and the counter
\* went on by one if the step completed a block and stayed otherwise
OnePullCycle(state, source, key, iv, fed, fed2, emitted, emitted2, counter, counter2) ==
  state = "readable" =>
    LET completed == (Len(fed2) \div blockByteSize) - (Len(fed) \div blockByteSize)
    IN /\ IsPrefix(fed, fed2)
       /\ IsPrefix(fed2, source)
       /\ IsPrefix(emitted, emitted2)
       /\ Len(emitted2) - Len(emitted) = Len(fed2) - Len(fed)
       /\ emitted2 = OneShotCtr(fed2, key, iv)
       /\ completed \in {0, 1}
       /\ counter2 = CounterPlus(counter, completed)
       /\ completed = 1 => BigEndianSuccessor(counter, counter2)

\* C21: within one transform the pulls are sequential: between two steps a
\* transform is always in the state of a whole number of finished pulls
\* (read, provider call, emission and counter update all done), every step
\* is at most one pull, the chunks come out in the order of the input bytes
\* they were made from, and the counter goes on by exactly one per completed
\* block, never by more and never backward except for the wrap to zero.
C21_SequentialOrdering ==
  /\ [](BetweenPulls(eInner, params.plain, srcPos, eBuff, eFed, eOut, params.iv,
                     eCounter, eBlockOffset)
        /\ BetweenPulls(dInner, Wire, wirePos, dBuff, dFed, dOut, params.iv,
                        dCounter, dBlockOffset))
  /\ [][OnePullCycle(eInner, params.plain, params.key, params.iv, eFed, eFed',
                     eOut, eOut', eCounter, eCounter')]_vars
  /\ [][OnePullCycle(dInner, Wire, params.key, params.iv, dFed, dFed',
                     dOut, dOut', dCounter, dCounter')]_vars

\* the encrypt side has finished its second block, its counter having
\* wrapped from all-ones to zero and gone on to one, while the decrypt side
\* has finished its first block only, with bytes left in its reader
C21_Witness ==
  /\ params.iv = IvAllOnes
  /\ eInner = "readable"
  /\ Len(eFed) = 2 * blockByteSize
  /\ eCounter = CounterPlus(ZeroBlock, 1)
  /\ dInner = "readable"
  /\ Len(dFed) = blockByteSize
  /\ dBuff # <<>>
  /\ dCounter = ZeroBlock

----------------------------------------------------------------------------
(* Order of header, derivation and cipher on the password paths *)

\* stages of a password entry point before its derivation has settled
BeforeDerived == {"start", "magic", "salt", "derive"}

\* bytes of the OpenSSL header: the magic and the 8-byte salt
HeaderBytes == Len(Salted__) + 8

\* C22, as stated for the decrypt path: before the derivation has completed
\* no byte beyond the 16 header bytes has been read from the source.
C22_NoPayloadReadBeforeDerived ==
  (params.path = "password" /\ dOuter \in BeforeDerived) => wirePos <= HeaderBytes

\* the stage of a password entry point only moves forward: the derivation is
\* entered from the stage before it and left once, and is never entered again
DerivedOnce(stage, stage2, before) ==
  /\ (stage2 = "derive" /\ stage # "derive") => stage = before
  /\ stage = "derive" => stage2 \in {"derive", "readable", "errored"}
  /\ stage \in {"readable", "closed", "errored"} => stage2 \notin BeforeDerived

\* key and iv a constructed cipher transform was given are the result of
\* the one derivation, and stay
KeyIsDerived(inner, salt, key, iv) ==
  inner # "none" =>
    LET keyAndIv == deriveKeyAndIvByPbkdf2(salt, params.password, params.keyBits,
                                           params.iterations, params.hash)
    IN keyAndIv.ok /\ key = keyAndIv.key /\ iv = keyAndIv.iv

\* C22: on the password paths the derivation is performed once per stream
\* and has completed before the cipher transform exists, so before its first
\* provider call and before any byte reaches it; on the decrypt path the
\* derivation starts when exactly the 16 header bytes have been taken from
\* the reader, the salt being bytes 8..15 of the source, and until it has
\* completed every source byte read beyond the header is held in the
\* reader's backlog and none has been passed on.
C22_DerivationOrdering ==
  /\ [](params.path = "password" =>
         /\ KeyIsDerived(eInner, params.salt, eKey, eIv)
         /\ KeyIsDerived(dInner, dSalt, dKey, dIv)
         /\ eOuter \in BeforeDerived =>
              (eInner = "none" /\ srcPos = 0 /\ eFed = <<>> /\ eQueue = <<>>)
         /\ dOuter \in BeforeDerived =>
              /\ dInner = "none" /\ iState = "none"
              /\ iQueue = <<>> /\ dBuff = <<>> /\ dFed = <<>> /\ dOut = <<>>
              /\ wirePos - Len(r1Buff) <= HeaderBytes
         /\ dOuter = "derive" =>
              /\ wirePos - Len(r1Buff) = HeaderBytes
              /\ Len(Wire) >= HeaderBytes
              /\ dSalt = SubSeq(Wire, Len(Salted__) + 1, HeaderBytes))
  /\ [][params.path = "password" =>
          (DerivedOnce(eOuter, eOuter', "start") /\ DerivedOnce(dOuter, dOuter', "salt"))]_vars
  /\ [][(params.path = "password" /\ eInner # "none") => eKey' = eKey]_vars
  /\ [][(params.path = "password" /\ dInner # "none") => (dKey' = dKey /\ dSalt' = dSalt)]_vars

\* the decrypt side is deriving its key: the header came in one chunk with
\* payload bytes, which wait in the reader's backlog
C22_Witness ==
  /\ params.path = "password"
  /\ dOuter = "derive"
  /\ wirePos > HeaderBytes
  /\ Len(r1Buff) = wirePos - HeaderBytes
  /\ dFed = <<>>

----------------------------------------------------------------------------
(* Provider failures *)

\* C23, as stated: a rejection of a provider is surfaced as an errored
\* output stream.  crypto.subtle.importKey is called when the cipher
\* transform is constructed, so a transform constructed with a key the
\* provider rejects never closes normally, on the encrypt side and on the
\* decrypt side.
C23_ProviderFailureIsFatal ==
  /\ (eInner # "none" /\ ~eKeyOk) => (eInner # "closed" /\ EncEntry # "closed")
  /\ (dInner # "none" /\ ~dKeyOk) => (dInner # "closed" /\ DecEntry # "closed")

----------------------------------------------------------------------------
(* Lengths of key and counter *)

\* C24, as stated: in every state of every constructed cipher transform, on
\* the explicit-key path and on the password path, the counter is 16 bytes
\* long and the key 16 or 32 bytes long.
C24_KeyAndCounterLengths ==
  /\ eInner # "none" => (Len(eCounter) = blockByteSize /\ Len(eKey) \in {16, 32})
  /\ dInner # "none" => (Len(dCounter) = blockByteSize /\ Len(dKey) \in {16, 32})

====
